---- MODULE Spec2Model ----
(***************************************************************************)
(* Playback controller and frame sampler of the chat-to-visualization      *)
(* frontend (src/App.tsx, src/components/Controls.tsx) and the frame       *)
(* lookup, effects and render pass of the canvas                           *)
(* (src/components/VisualizationCanvas, src/services/helpers), and the     *)
(* SSE service with its clients (src/services/sseService.ts).              *)
(*                                                                         *)
(* JavaScript numbers that can leave the integers (progress, interpolated  *)
(* property values) are modelled as pairs <<n, d>> with d >= 0:            *)
(*   d > 0  the rational n/d in lowest terms,                               *)
(*   <<1,0>> +Infinity, <<-1,0>> -Infinity, <<0,0>> NaN.                    *)
(* Times (currentTime, duration, timestamps) stay integers: every          *)
(* operation of the controller maps integer times to integer times.        *)
(***************************************************************************)
EXTENDS Integers, Sequences, FiniteSets, TLC

VARIABLES
    animationState,        \* App.tsx useState<AnimationState>
    currentVisualization,  \* App.tsx useState<VisualizationData | null>
    animationTimer,        \* TRUE while an interval created by the timer effect is live
    effectDeps,            \* [isPlaying, duration] seen by the last run of the timer effect
    last,                  \* history: the last operation, its argument, the state before it
    pausedAt,              \* history: time at which pause was called in Playing, or NotPaused
    dbVisualization,       \* the backend visualization given to transformVisualizationData
    frames,                \* the frames it returned, <<>> before the call
    queryTime,             \* VisualizationCanvas: the time given to getCurrentFrame
    currentFrame,          \* index in frames of the frame it returned, 0 for null
    mounted,               \* App (and with a scene, VisualizationCanvas) is mounted
    pendingFrame,          \* TRUE while a requestAnimationFrame callback is scheduled
    committed,             \* the animation state of the last commit (seen by the effects)
    sceneDirty,            \* a new frames array was set since the last commit
    pendingOp,             \* the state update since the last commit: "none", its name, "many"
    playExit,              \* history: how the last playing period was left, "none" while in it
    renderLog,             \* history: the render passes of the last commit or frame callback
    eventSource,           \* SSEService.eventSource: 0 for null, else the EventSource's number
    readyState,            \* readyState of every EventSource the service can create
    reconnectAttempts,     \* SSEService.reconnectAttempts
    reconnectDelay,        \* SSEService.reconnectDelay (ms)
    reconnectTimers,       \* number of pending setTimeout callbacks of handleReconnect
    listeners,             \* SSEService.listeners: App handlers registered per event type
    isConnected,           \* SSEService._isConnected
    serviceLog,            \* history of the service: last call, handlers run, schedules
    visualization,         \* VisualizationCanvas: the visualization prop
    drawLog,               \* history: the drawing commands of the last render pass
    previousLog,           \* history: the drawing commands of the pass before it
    thrown                 \* history: the last render pass was ended by an exception

controllerVars ==
    <<animationState, currentVisualization, animationTimer, effectDeps, last, pausedAt>>

samplerVars == <<dbVisualization, frames>>

lookupVars == <<queryTime, currentFrame>>

viewVars == <<mounted, pendingFrame, committed, sceneDirty, pendingOp, playExit, renderLog>>

serviceVars == <<eventSource, readyState, reconnectAttempts, reconnectDelay,
                 reconnectTimers, listeners, isConnected, serviceLog>>

canvasVars == <<visualization, drawLog, previousLog, thrown>>

vars == <<animationState, currentVisualization, animationTimer, effectDeps, last, pausedAt,
          dbVisualization, frames, queryTime, currentFrame,
          mounted, pendingFrame, committed, sceneDirty, pendingOp, playExit, renderLog,
          eventSource, readyState, reconnectAttempts, reconnectDelay,
          reconnectTimers, listeners, isConnected, serviceLog,
          visualization, drawLog, previousLog, thrown>>

----------------------------------------------------------------------------
(* Bounds *)

MaxDuration == 40      \* longest scene duration (ms)
SeekStep == 7          \* spacing of the seek times that are tried
MaxSeekSteps == 7      \* number of seek times above 0 (the last ones exceed MaxDuration)
MaxSources == 3        \* EventSources the service creates in one run

(* Program constants *)

TickMs == 16           \* setInterval period and increment of the timer effect
maxReconnectAttempts == 5       \* SSEService.maxReconnectAttempts
InitialReconnectDelay == 1000   \* SSEService.reconnectDelay at construction and after onopen
MaxReconnectDelay == 30000      \* cap of the exponential backoff

Durations == {0, TickMs, MaxDuration}
SeekTimes == {-SeekStep} \cup {k * SeekStep : k \in 0..MaxSeekSteps} \cup Durations

----------------------------------------------------------------------------
(* JavaScript number arithmetic on pairs <<n, d>> *)

Abs(x) == IF x < 0 THEN -x ELSE x

Sign(x) == IF x < 0 THEN -1 ELSE IF x > 0 THEN 1 ELSE 0

Min(a, b) == IF a < b THEN a ELSE b

Max(a, b) == IF a > b THEN a ELSE b

RECURSIVE GCD(_, _)
GCD(a, b) == IF b = 0 THEN a ELSE GCD(b, a % b)

NaN == <<0, 0>>

PosInf == <<1, 0>>

NegInf == <<-1, 0>>

Zero == <<0, 1>>

One == <<1, 1>>

Num(n, d) ==
    IF d = 0 THEN <<Sign(n), 0>>
    ELSE LET g == GCD(Abs(n), Abs(d))
             s == Sign(d)
         IN  <<(s * n) \div g, (s * d) \div g>>

N(i) == <<i, 1>>

IsNaN(a) == a = NaN

JsMul(a, b) ==
    IF IsNaN(a) \/ IsNaN(b) THEN NaN ELSE Num(a[1] * b[1], a[2] * b[2])

JsRecip(a) ==
    IF IsNaN(a) THEN NaN
    ELSE IF a[2] = 0 THEN Zero
    ELSE IF a[1] = 0 THEN PosInf
    ELSE <<Sign(a[1]) * a[2], Abs(a[1])>>

\* a / b. A zero divisor gives NaN for 0/0 and an infinity of a's sign otherwise.
JsDiv(a, b) == JsMul(a, JsRecip(b))

JsAdd(a, b) ==
    IF IsNaN(a) \/ IsNaN(b) THEN NaN
    ELSE IF a[2] = 0 /\ b[2] = 0 THEN (IF a = b THEN a ELSE NaN)
    ELSE IF a[2] = 0 THEN a
    ELSE IF b[2] = 0 THEN b
    ELSE Num(a[1] * b[2] + b[1] * a[2], a[2] * b[2])

JsNeg(a) == <<-a[1], a[2]>>

JsSub(a, b) == JsAdd(a, JsNeg(b))

\* a < b; FALSE when either is NaN
JsLess(a, b) ==
    IF IsNaN(a) \/ IsNaN(b) THEN FALSE
    ELSE IF a[2] = 0 /\ b[2] = 0 THEN a[1] < b[1]
    ELSE IF a[2] = 0 THEN a[1] < 0
    ELSE IF b[2] = 0 THEN b[1] > 0
    ELSE a[1] * b[2] < b[1] * a[2]

\* Math.min / Math.max: NaN if either argument is NaN
JsMin(a, b) == IF IsNaN(a) \/ IsNaN(b) THEN NaN ELSE IF JsLess(b, a) THEN b ELSE a

JsMax(a, b) == IF IsNaN(a) \/ IsNaN(b) THEN NaN ELSE IF JsLess(a, b) THEN b ELSE a

----------------------------------------------------------------------------
(* State updaters of the playback controller (the functions given to       *)
(* setAnimationState)                                                      *)

InitialAnimationState ==
    [isPlaying |-> FALSE, currentTime |-> 0, duration |-> 0, progress |-> Zero]

handlePlay(prev) == [prev EXCEPT !.isPlaying = TRUE]

handlePause(prev) == [prev EXCEPT !.isPlaying = FALSE]

handleRestartKeepsPlaying(prev) ==
    [prev EXCEPT !.currentTime = 0, !.progress = Zero]

handleRestart(prev) ==
    [prev EXCEPT !.currentTime = 0, !.progress = Zero, !.isPlaying = FALSE]

handleSeekRelative(prev, time) ==
    [prev EXCEPT
        !.currentTime = Max(0, Min(prev.currentTime + time, prev.duration)),
        !.progress = JsMax(Zero, JsMin(JsDiv(N(prev.currentTime + time), N(prev.duration)), One))]

handleSeek(prev, time) ==
    [prev EXCEPT
        !.currentTime = Max(0, Min(time, prev.duration)),
        !.progress = JsMax(Zero, JsMin(JsDiv(N(time), N(prev.duration)), One))]

timerTickNoClamp(prev) ==
    LET newTime == prev.currentTime + TickMs
        newProgress == JsDiv(N(newTime), N(prev.duration))
    IN  IF newTime >= prev.duration
        THEN [prev EXCEPT !.currentTime = newTime, !.progress = newProgress,
                          !.isPlaying = FALSE]
        ELSE [prev EXCEPT !.currentTime = newTime, !.progress = newProgress]

timerTickNeverEnds(prev) ==
    LET newTime == Min(prev.currentTime + TickMs, prev.duration)
        newProgress == JsDiv(N(newTime), N(prev.duration))
    IN  [prev EXCEPT !.currentTime = newTime, !.progress = newProgress]

\* the updater run by each firing of the interval
timerTick(prev) ==
    LET newTime == Min(prev.currentTime + TickMs, prev.duration)
        newProgress == JsDiv(N(newTime), N(prev.duration))
    IN  IF newTime >= prev.duration
        THEN [prev EXCEPT !.currentTime = newTime, !.progress = newProgress,
                          !.isPlaying = FALSE]
        ELSE [prev EXCEPT !.currentTime = newTime, !.progress = newProgress]

loadVisualizationDeferred(prev, duration) ==
    [prev EXCEPT !.duration = IF prev.isPlaying THEN prev.duration ELSE duration,
                 !.currentTime = 0,
                 !.progress = Zero]

\* the updater of the answer_created handler, for a visualization of the given duration
loadVisualization(prev, duration) ==
    [prev EXCEPT !.duration = duration, !.currentTime = 0, !.progress = Zero]

----------------------------------------------------------------------------
(* The controller as a state machine *)

NoVisualization == [loaded |-> FALSE, duration |-> 0]

NoBackendVisualization == [duration |-> 0, hasLayers |-> FALSE, layers |-> <<>>]

NotPaused == 0 - 1

NoRender == [op |-> "none", passes |-> <<>>]

\* the variables of the canvas before anything was looked up or rendered
CanvasIdle ==
    /\ queryTime = 0
    /\ currentFrame = 0
    /\ mounted = TRUE
    /\ pendingFrame = FALSE
    /\ committed = InitialAnimationState
    /\ sceneDirty = FALSE
    /\ pendingOp = "none"
    /\ playExit = "none"
    /\ renderLog = NoRender

Sources == 1..MaxSources

EventTypes == {"question_created", "answer_created", "answer_error", "connection_change"}

NoServiceCall ==
    [op |-> "none", handled |-> 0, scheduled |-> 0, disconnected |-> FALSE, refused |-> FALSE]

\* the SSE service as constructed
ServiceIdle ==
    /\ eventSource = 0
    /\ readyState = [s \in Sources |-> "unborn"]
    /\ reconnectAttempts = 0
    /\ reconnectDelay = InitialReconnectDelay
    /\ reconnectTimers = 0
    /\ listeners = [t \in EventTypes |-> 0]
    /\ isConnected = FALSE
    /\ serviceLog = NoServiceCall

NoScene == [present |-> FALSE, hasFrames |-> FALSE, frames |-> <<>>]

\* the canvas before any render pass
CanvasBlank ==
    /\ visualization = NoScene
    /\ drawLog = <<>>
    /\ previousLog = <<>>
    /\ thrown = FALSE

Deps(s) == <<s.isPlaying, s.duration>>

Init ==
    /\ animationState = InitialAnimationState
    /\ currentVisualization = NoVisualization
    /\ animationTimer = FALSE
    /\ effectDeps = Deps(InitialAnimationState)
    /\ last = [op |-> "init", arg |-> 0, pre |-> InitialAnimationState]
    /\ pausedAt = NotPaused
    /\ dbVisualization = NoBackendVisualization
    /\ frames = <<>>
    /\ CanvasIdle
    /\ ServiceIdle
    /\ CanvasBlank

\* answer_created carrying a visualization: the scene is replaced and the
\* animation state is updated in the same handler
AnswerCreated(duration) ==
    /\ animationState' = loadVisualization(animationState, duration)
    /\ currentVisualization' = [loaded |-> TRUE, duration |-> duration]
    /\ last' = [op |-> "load", arg |-> duration, pre |-> animationState]
    /\ pausedAt' = NotPaused
    /\ UNCHANGED <<animationTimer, effectDeps>>
    /\ UNCHANGED samplerVars
    /\ UNCHANGED <<lookupVars, viewVars>>
    /\ UNCHANGED <<serviceVars, canvasVars>>

\* answer_created without a visualization: only the message list changes
AnswerWithoutVisualization ==
    /\ last' = [op |-> "answer", arg |-> 0, pre |-> animationState]
    /\ UNCHANGED <<animationState, currentVisualization, animationTimer, effectDeps,
                   pausedAt>>
    /\ UNCHANGED samplerVars
    /\ UNCHANGED <<lookupVars, viewVars>>
    /\ UNCHANGED <<serviceVars, canvasVars>>

\* Controls: the play/pause button shows play while not playing; both buttons
\* are disabled while duration is 0; Controls is mounted only with a scene
Play ==
    /\ currentVisualization.loaded
    /\ animationState.duration # 0
    /\ ~animationState.isPlaying
    /\ animationState' = handlePlay(animationState)
    /\ last' = [op |-> "play", arg |-> 0, pre |-> animationState]
    /\ pausedAt' = NotPaused
    /\ UNCHANGED <<currentVisualization, animationTimer, effectDeps>>
    /\ UNCHANGED samplerVars
    /\ UNCHANGED <<lookupVars, viewVars>>
    /\ UNCHANGED <<serviceVars, canvasVars>>

Pause ==
    /\ currentVisualization.loaded
    /\ animationState.duration # 0
    /\ animationState.isPlaying
    /\ animationState' = handlePause(animationState)
    /\ last' = [op |-> "pause", arg |-> 0, pre |-> animationState]
    /\ pausedAt' = animationState.currentTime
    /\ UNCHANGED <<currentVisualization, animationTimer, effectDeps>>
    /\ UNCHANGED samplerVars
    /\ UNCHANGED <<lookupVars, viewVars>>
    /\ UNCHANGED <<serviceVars, canvasVars>>

Restart ==
    /\ currentVisualization.loaded
    /\ animationState.duration # 0
    /\ animationState' = handleRestart(animationState)
    /\ last' = [op |-> "restart", arg |-> 0, pre |-> animationState]
    /\ pausedAt' = NotPaused
    /\ UNCHANGED <<currentVisualization, animationTimer, effectDeps>>
    /\ UNCHANGED samplerVars
    /\ UNCHANGED <<lookupVars, viewVars>>
    /\ UNCHANGED <<serviceVars, canvasVars>>

\* onSeek(time); the progress bar is never disabled
Seek(time) ==
    /\ currentVisualization.loaded
    /\ animationState' = handleSeek(animationState, time)
    /\ last' = [op |-> "seek", arg |-> time, pre |-> animationState]
    /\ pausedAt' = NotPaused
    /\ UNCHANGED <<currentVisualization, animationTimer, effectDeps>>
    /\ UNCHANGED samplerVars
    /\ UNCHANGED <<lookupVars, viewVars>>
    /\ UNCHANGED <<serviceVars, canvasVars>>

\* one firing of the interval created by the timer effect
TimerTick ==
    /\ animationTimer
    /\ animationState' = timerTick(animationState)
    /\ last' = [op |-> "tick", arg |-> 0, pre |-> animationState]
    /\ UNCHANGED <<currentVisualization, animationTimer, effectDeps, pausedAt>>
    /\ UNCHANGED samplerVars
    /\ UNCHANGED <<lookupVars, viewVars>>
    /\ UNCHANGED <<serviceVars, canvasVars>>

\* The timer effect, run by React after a commit in which isPlaying or
\* duration differs from the previous commit: the previous run's cleanup
\* clears its interval, then a new interval is created when playing with a
\* positive duration.
TimerEffect ==
    /\ effectDeps # Deps(animationState)
    /\ animationTimer' = (animationState.isPlaying /\ animationState.duration > 0)
    /\ effectDeps' = Deps(animationState)
    /\ last' = [op |-> "effect", arg |-> 0, pre |-> animationState]
    /\ UNCHANGED <<animationState, currentVisualization, pausedAt>>
    /\ UNCHANGED samplerVars
    /\ UNCHANGED <<lookupVars, viewVars>>
    /\ UNCHANGED <<serviceVars, canvasVars>>

Next ==
    \/ \E d \in Durations : AnswerCreated(d)
    \/ AnswerWithoutVisualization
    \/ Play
    \/ Pause
    \/ Restart
    \/ \E t \in SeekTimes : Seek(t)
    \/ TimerTick
    \/ TimerEffect

Spec == Init /\ [][Next]_vars

----------------------------------------------------------------------------
(* Properties of the playback controller *)

\* C1: restart, called in any state, yields currentTime = 0, progress = 0 and
\* isPlaying = false and leaves duration unchanged; and playback does not
\* resume by itself: only play turns isPlaying from false to true.
RestartResets ==
    /\ [](last.op = "restart" =>
            animationState = [isPlaying |-> FALSE, currentTime |-> 0,
                              duration |-> last.pre.duration, progress |-> Zero])
    /\ [][(~animationState.isPlaying /\ animationState'.isPlaying)
            => last'.op = "play"]_vars

RestartWhilePlaying ==
    /\ last.op = "restart"
    /\ last.pre.isPlaying
    /\ last.pre.currentTime > 0
    /\ last.pre.currentTime < last.pre.duration

\* C2: loading a scene yields isPlaying = false, currentTime = 0, progress = 0
\* and duration set from the scene, whatever the state before.
LoadResetsAnimationState ==
    last.op = "load" =>
        animationState = [isPlaying |-> FALSE, currentTime |-> 0,
                          duration |-> last.arg, progress |-> Zero]

\* C3: seek(t) keeps isPlaying and duration, sets currentTime to
\* clamp(t, 0, duration) and progress to currentTime/duration, 0 when
\* duration is 0.
SeekClampsAndSetsProgress ==
    last.op = "seek" =>
        LET d == last.pre.duration
            c == Max(0, Min(last.arg, d))
        IN  /\ animationState.isPlaying = last.pre.isPlaying
            /\ animationState.duration = d
            /\ animationState.currentTime = c
            /\ animationState.progress = IF d = 0 THEN Zero ELSE Num(c, d)

\* C4: in every reachable state 0 <= currentTime <= duration.
TimeWithinDuration ==
    /\ 0 <= animationState.currentTime
    /\ animationState.currentTime <= animationState.duration

TickClampedAtDuration ==
    /\ last.op = "tick"
    /\ last.pre.currentTime < last.pre.duration
    /\ last.pre.currentTime + TickMs > last.pre.duration
    /\ animationState.currentTime = animationState.duration

\* C6: play called in Ended (currentTime = duration, not playing) leaves the
\* animation state unchanged.
PlayAtEndIsNoOp ==
    (last.op = "play" /\ last.pre.currentTime = last.pre.duration) =>
        animationState = last.pre

\* C7: after pause in Playing(t), isPlaying is false and currentTime stays t
\* until the next play, seek, restart or scene load.
PauseHoldsTime ==
    pausedAt # NotPaused =>
        /\ ~animationState.isPlaying
        /\ animationState.currentTime = pausedAt

\* C8: in every reachable state and for every time t, seek(t);seek(t) yields
\* the state of seek(t), and seek(t);pause() yields the state of
\* pause();seek(t).
SeekIdempotentCommutesWithPause ==
    \A t \in SeekTimes :
        LET once == handleSeek(animationState, t)
        IN  /\ handleSeek(once, t) = once
            /\ handlePause(once) = handleSeek(handlePause(animationState), t)

SeekMovedWhilePlaying ==
    /\ last.op = "seek"
    /\ last.pre.isPlaying
    /\ last.pre.currentTime > 0
    /\ animationState.currentTime # last.pre.currentTime
    /\ animationState.currentTime > 0

\* C9: in every reachable state progress = currentTime/duration when
\* duration > 0 and progress = 0 when duration is 0.
ProgressDefined ==
    animationState.progress =
        IF animationState.duration > 0
        THEN Num(animationState.currentTime, animationState.duration)
        ELSE Zero

\* C18: a scene replacement and the reset of AnimationState are one step
\* with respect to ticks: whenever an interval is live, and so a tick can
\* fire, animationState.duration is the duration of the loaded scene, and
\* every tick advances and clamps currentTime against that duration.
TicksSeeLoadedDuration ==
    /\ animationTimer => animationState.duration = currentVisualization.duration
    /\ last.op = "tick" =>
          /\ last.pre.duration = currentVisualization.duration
          /\ animationState.currentTime
                = Min(last.pre.currentTime + TickMs, currentVisualization.duration)

TickAfterReplacementWhilePlaying ==
    /\ last.op = "tick"
    /\ effectDeps # Deps(last.pre)
    /\ effectDeps[2] = TickMs
    /\ currentVisualization.duration = MaxDuration
    /\ animationState.currentTime = TickMs

----------------------------------------------------------------------------
(* Playback left alone: play is called once in a paused state before the   *)
(* end, and afterwards only the interval and the timer effect run. The     *)
(* browser fires a live interval again and again and React runs a pending  *)
(* effect, hence the weak fairness of both.                                *)

PlaybackInit ==
    /\ \E d \in Durations \ {0} : \E t \in 0..(d - 1) :
          /\ animationState = [isPlaying |-> FALSE, currentTime |-> t, duration |-> d,
                               progress |-> Num(t, d)]
          /\ currentVisualization = [loaded |-> TRUE, duration |-> d]
          /\ last = [op |-> "init", arg |-> 0, pre |-> animationState]
    /\ animationTimer = FALSE
    /\ effectDeps = Deps(animationState)
    /\ pausedAt = NotPaused
    /\ dbVisualization = NoBackendVisualization
    /\ frames = <<>>
    /\ CanvasIdle
    /\ ServiceIdle
    /\ CanvasBlank

PlayOnce == last.op = "init" /\ Play

PlaybackNext == PlayOnce \/ TimerTick \/ TimerEffect

PlaybackSpec ==
    PlaybackInit /\ [][PlaybackNext]_vars /\ WF_vars(TimerTick) /\ WF_vars(TimerEffect)

Ended ==
    /\ animationState.currentTime = animationState.duration
    /\ ~animationState.isPlaying

\* C5: after play at currentTime < duration with duration > 0, and with no
\* further user operation, playback reaches currentTime = duration with
\* isPlaying = false and stays there; each tick adds 16 ms, clamped to duration.
PlaybackRunsToEnd ==
    /\ (last.op = "play") ~> Ended
    /\ [][Ended => Ended']_vars
    /\ [][last'.op = "tick" =>
            animationState'.currentTime =
                Min(animationState.currentTime + TickMs, animationState.duration)]_vars

EndedAfterSeveralTicks ==
    /\ Ended
    /\ last.op = "tick"
    /\ last.pre.isPlaying
    /\ last.pre.currentTime >= TickMs
    /\ last.pre.currentTime + TickMs > animationState.duration

----------------------------------------------------------------------------
(* transformVisualizationData: sampling the backend's layers and           *)
(* animations into frames, one every 16 ms.                                *)
(*                                                                         *)
(* A property value is a record [t, v]: t = "num" with v a number pair,    *)
(* t = "str" with v the pair of a string's code, t = "undef" for a         *)
(* property the bag does not have.                                         *)

NumV(a) == [t |-> "num", v |-> a]

StrV(code) == [t |-> "str", v |-> N(code)]

Undefined == [t |-> "undef", v |-> Zero]

IsNumber(val) == val.t = "num"

Half == <<1, 2>>

Two == <<2, 1>>

applyEasingInOutAsIn(t, easing) ==
    CASE easing = "ease-in" -> JsMul(t, t)
      [] easing = "ease-out" -> JsSub(One, JsMul(JsSub(One, t), JsSub(One, t)))
      [] easing = "ease-in-out" -> JsMul(JsMul(Two, t), t)
      [] OTHER -> t

applyEasing(t, easing) ==
    CASE easing = "ease-in" -> JsMul(t, t)
      [] easing = "ease-out" -> JsSub(One, JsMul(JsSub(One, t), JsSub(One, t)))
      [] easing = "ease-in-out" ->
            IF JsLess(t, Half)
            THEN JsMul(JsMul(Two, t), t)
            ELSE JsSub(One, JsMul(JsMul(Two, JsSub(One, t)), JsSub(One, t)))
      [] OTHER -> t

\* the body of layer.animations.forEach for one animation
applyAnimation(properties, anim, timestamp) ==
    IF timestamp >= anim.startTime /\ timestamp <= anim.endTime
    THEN LET progress == JsDiv(N(timestamp - anim.startTime),
                               N(anim.endTime - anim.startTime))
             easedProgress == applyEasing(progress, anim.easing)
         IN  IF IsNumber(anim.fromValue) /\ IsNumber(anim.toValue)
             THEN [properties EXCEPT ![anim.property] =
                     NumV(JsAdd(anim.fromValue.v,
                                JsMul(JsSub(anim.toValue.v, anim.fromValue.v),
                                      easedProgress)))]
             ELSE properties
    ELSE properties

RECURSIVE applyAnimationsReversed(_, _, _)
applyAnimationsReversed(properties, animations, timestamp) ==
    IF animations = <<>> THEN properties
    ELSE applyAnimation(applyAnimationsReversed(properties, Tail(animations), timestamp),
                        Head(animations), timestamp)

RECURSIVE applyAnimations(_, _, _)
applyAnimations(properties, animations, timestamp) ==
    IF animations = <<>> THEN properties
    ELSE applyAnimations(applyAnimation(properties, Head(animations), timestamp),
                         Tail(animations), timestamp)

\* the object of one layer in the frame of the given timestamp
layerObject(layer, timestamp) ==
    [id |-> layer.layerId,
     type |-> layer.type,
     properties |-> applyAnimations(layer.props, layer.animations, timestamp)]

DefaultDuration == 5000

FrameMs == 16

CeilDiv(a, b) == (a + b - 1) \div b

transformVisualizationData(db) ==
    IF ~db.hasLayers THEN [hasFrames |-> FALSE, frames |-> <<>>]
    ELSE LET duration == IF db.duration = 0 THEN DefaultDuration ELSE db.duration
             frameCount == CeilDiv(duration, FrameMs)
         IN  [hasFrames |-> TRUE,
              frames |-> [i \in 1..frameCount |->
                            [timestamp |-> (i - 1) * FrameMs,
                             objects |-> [l \in 1..Len(db.layers) |->
                                            layerObject(db.layers[l], (i - 1) * FrameMs)]]]]

----------------------------------------------------------------------------
(* The sampler applied to bounded backend visualizations: one layer with   *)
(* one animated property.                                                  *)

SampleDuration == 64   \* duration of the sampled visualizations (ms)
WindowStep == 8        \* spacing of the animation window's start and end times
MaxWindowSteps == 7    \* start and end times go up to WindowStep * MaxWindowSteps

SampleBases == {Undefined, NumV(N(5)), NumV(N(100))}

SampleValues == {NumV(N(100)), NumV(N(400))}

SampleEasings == {"linear", "ease-in", "ease-out", "ease-in-out", "none"}

WindowTimes == {k * WindowStep : k \in 0..MaxWindowSteps}

SampleAnimations ==
    [property : {"x"}, fromValue : SampleValues, toValue : SampleValues,
     startTime : WindowTimes, endTime : WindowTimes, easing : SampleEasings]

SampleVisualizations ==
    {[duration |-> SampleDuration, hasLayers |-> TRUE,
      layers |-> <<[layerId |-> "l1", type |-> "circle",
                    props |-> [x |-> b], animations |-> <<a>>]>>] :
        b \in SampleBases, a \in SampleAnimations}

\* two animations of the same property of one layer, with overlapping windows
OverlapFirst ==
    [property : {"opacity"}, fromValue : {NumV(Zero)}, toValue : {NumV(One)},
     startTime : {0, 2 * WindowStep}, endTime : {4 * WindowStep, 6 * WindowStep},
     easing : {"linear", "ease-in"}]

OverlapSecond ==
    [property : {"opacity"}, fromValue : {NumV(One), NumV(Half)},
     toValue : {NumV(Zero), NumV(Half)},
     startTime : {0, 2 * WindowStep}, endTime : {4 * WindowStep, 6 * WindowStep},
     easing : {"linear", "ease-out"}]

OverlapVisualizations ==
    {[duration |-> SampleDuration, hasLayers |-> TRUE,
      layers |-> <<[layerId |-> "l1", type |-> "circle",
                    props |-> [opacity |-> b], animations |-> <<a1, a2>>]>>] :
        b \in {Undefined, NumV(One)}, a1 \in OverlapFirst, a2 \in OverlapSecond}

\* an animation between two colour strings
ColourAnimations ==
    [property : {"fill"}, fromValue : {StrV(2)}, toValue : {StrV(3)},
     startTime : WindowTimes, endTime : WindowTimes, easing : {"linear", "none"}]

ColourVisualizations ==
    {[duration |-> SampleDuration, hasLayers |-> TRUE,
      layers |-> <<[layerId |-> "l1", type |-> "circle",
                    props |-> [fill |-> b], animations |-> <<a>>]>>] :
        b \in {Undefined, StrV(1)}, a \in ColourAnimations}

\* a visualization whose duration is 0 or missing, and visualizations without layers
FallbackVisualizations ==
    {[duration |-> 0, hasLayers |-> TRUE,
      layers |-> <<[layerId |-> "l1", type |-> "circle", props |-> [x |-> b],
                    animations |-> <<[property |-> "x", fromValue |-> NumV(N(100)),
                                      toValue |-> NumV(N(400)), startTime |-> 0,
                                      endTime |-> SampleDuration,
                                      easing |-> "linear"]>>]>>] :
        b \in SampleBases}
    \cup {[duration |-> d, hasLayers |-> FALSE, layers |-> <<>>] : d \in {0, SampleDuration}}

SamplerInit ==
    /\ animationState = InitialAnimationState
    /\ currentVisualization = NoVisualization
    /\ animationTimer = FALSE
    /\ effectDeps = Deps(InitialAnimationState)
    /\ last = [op |-> "init", arg |-> 0, pre |-> InitialAnimationState]
    /\ pausedAt = NotPaused
    /\ dbVisualization \in SampleVisualizations \cup OverlapVisualizations
                           \cup ColourVisualizations \cup FallbackVisualizations
    /\ frames = <<>>
    /\ CanvasIdle
    /\ ServiceIdle
    /\ CanvasBlank

\* frames of frontendVisualization: [] overwritten by the spread of the transform's result
frontendFrames(db) ==
    LET r == transformVisualizationData(db)
    IN  IF r.hasFrames THEN r.frames ELSE <<>>

\* the answer_created handler for the visualization dbVisualization: the
\* scene keeps the backend's duration and takes the sampled frames
Transform ==
    /\ ~currentVisualization.loaded
    /\ frames' = frontendFrames(dbVisualization)
    /\ currentVisualization' = [loaded |-> TRUE, duration |-> dbVisualization.duration]
    /\ animationState' = loadVisualization(animationState, dbVisualization.duration)
    /\ last' = [op |-> "load", arg |-> dbVisualization.duration, pre |-> animationState]
    /\ UNCHANGED <<dbVisualization, animationTimer, effectDeps, pausedAt>>
    /\ UNCHANGED <<lookupVars, viewVars>>
    /\ UNCHANGED <<serviceVars, canvasVars>>

SamplerNext == Transform

SamplerSpec == SamplerInit /\ [][SamplerNext]_vars

\* C10: for the animation of the layer (with a valid window, end > start)
\* and every frame: before the window the animated property equals the from
\* value, after the window it equals the to value.
AnimationHoldsFromAndTo ==
    \A i \in 1..Len(frames) :
        LET anim == dbVisualization.layers[1].animations[1]
            value == frames[i].objects[1].properties[anim.property]
        IN  anim.endTime > anim.startTime =>
                /\ frames[i].timestamp < anim.startTime => value = anim.fromValue
                /\ frames[i].timestamp > anim.endTime => value = anim.toValue

----------------------------------------------------------------------------
(* Properties of the sampled frames *)

TheLayer == dbVisualization.layers[1]

InWindow(anim, timestamp) == timestamp >= anim.startTime /\ timestamp <= anim.endTime

WindowProgress(anim, timestamp) ==
    JsDiv(N(timestamp - anim.startTime), N(anim.endTime - anim.startTime))

\* the easing functions in the forms of the specification
SpecEasing(t, easing) ==
    CASE easing = "ease-in" -> JsMul(t, t)
      [] easing = "ease-out" -> JsMul(t, JsSub(Two, t))
      [] easing = "ease-in-out" ->
            IF JsLess(t, Half)
            THEN JsMul(Two, JsMul(t, t))
            ELSE JsAdd(N(0 - 1), JsMul(JsSub(N(4), JsMul(Two, t)), t))
      [] OTHER -> t

\* from + (to - from) * eased progress, for a numeric animation inside its window
Interpolated(anim, timestamp) ==
    NumV(JsAdd(anim.fromValue.v,
               JsMul(JsSub(anim.toValue.v, anim.fromValue.v),
                     SpecEasing(WindowProgress(anim, timestamp), anim.easing))))

FrameValue(i, property) == frames[i].objects[1].properties[property]

\* C11: when two animations of a layer target the same property, the value
\* of every frame in their common window is the one computed from the
\* later-declared animation.
LaterAnimationWins ==
    \A i \in 1..Len(frames) :
        (/\ Len(TheLayer.animations) = 2
         /\ TheLayer.animations[1].property = TheLayer.animations[2].property
         /\ InWindow(TheLayer.animations[1], frames[i].timestamp)
         /\ InWindow(TheLayer.animations[2], frames[i].timestamp))
        => FrameValue(i, TheLayer.animations[2].property)
              = Interpolated(TheLayer.animations[2], frames[i].timestamp)

OverlapResolvedToLater ==
    /\ frames # <<>>
    /\ Len(TheLayer.animations) = 2
    /\ \E i \in 1..Len(frames) :
          /\ InWindow(TheLayer.animations[1], frames[i].timestamp)
          /\ InWindow(TheLayer.animations[2], frames[i].timestamp)
          /\ frames[i].timestamp > TheLayer.animations[2].startTime
          /\ frames[i].timestamp < TheLayer.animations[2].endTime
          /\ Interpolated(TheLayer.animations[1], frames[i].timestamp)
                # Interpolated(TheLayer.animations[2], frames[i].timestamp)
          /\ FrameValue(i, "opacity")
                = Interpolated(TheLayer.animations[2], frames[i].timestamp)

\* C12: an animation with an invalid window (end <= start) snaps to its to
\* value at start: every frame at or after start carries the to value, and
\* no frame carries NaN.
InvalidWindowSnapsToTo ==
    \A i \in 1..Len(frames) :
        (/\ Len(TheLayer.animations) = 1
         /\ TheLayer.animations[1].endTime <= TheLayer.animations[1].startTime)
        => /\ frames[i].timestamp >= TheLayer.animations[1].startTime
                => FrameValue(i, TheLayer.animations[1].property)
                      = TheLayer.animations[1].toValue
           /\ FrameValue(i, TheLayer.animations[1].property).v # NaN

\* C13: for an animation between two values that are not numbers, the
\* frames inside the window carry from while progress < 0.5 and to otherwise.
ColourSwitchesAtMidpoint ==
    \A i \in 1..Len(frames) :
        (/\ Len(TheLayer.animations) = 1
         /\ ~IsNumber(TheLayer.animations[1].fromValue)
         /\ ~IsNumber(TheLayer.animations[1].toValue)
         /\ TheLayer.animations[1].endTime > TheLayer.animations[1].startTime
         /\ InWindow(TheLayer.animations[1], frames[i].timestamp))
        => FrameValue(i, TheLayer.animations[1].property)
              = IF JsLess(WindowProgress(TheLayer.animations[1], frames[i].timestamp), Half)
                THEN TheLayer.animations[1].fromValue
                ELSE TheLayer.animations[1].toValue

MaxGridDenominator == 8   \* the easing functions are compared on k/d, d up to this

EasingGrid ==
    {t \in {Num(k, d) : k \in 0..MaxGridDenominator, d \in 1..MaxGridDenominator} :
        ~JsLess(One, t)}

\* C15: applyEasing equals the forms of the specification on the grid, has
\* the stated values, treats an unrecognized selector as linear, and the
\* sampled frames carry the values interpolated with those forms.
EasingMatchesSpec ==
    /\ \A t \in EasingGrid : \A e \in SampleEasings :
          applyEasing(t, e) = SpecEasing(t, e)
    /\ \A e \in SampleEasings : applyEasing(Zero, e) = Zero /\ applyEasing(One, e) = One
    /\ applyEasing(Half, "ease-in") = <<1, 4>>
    /\ applyEasing(Half, "ease-out") = <<3, 4>>
    /\ applyEasing(<<1, 4>>, "ease-in-out") = <<1, 8>>
    /\ applyEasing(<<3, 4>>, "ease-in-out") = <<7, 8>>
    /\ \A t \in EasingGrid : applyEasing(t, "none") = t
    /\ \A i \in 1..Len(frames) :
          (/\ Len(TheLayer.animations) = 1
           /\ IsNumber(TheLayer.animations[1].fromValue)
           /\ IsNumber(TheLayer.animations[1].toValue)
           /\ TheLayer.animations[1].endTime > TheLayer.animations[1].startTime
           /\ InWindow(TheLayer.animations[1], frames[i].timestamp))
          => FrameValue(i, TheLayer.animations[1].property)
                = Interpolated(TheLayer.animations[1], frames[i].timestamp)

EasedInOutFrameSampled ==
    /\ frames # <<>>
    /\ Len(TheLayer.animations) = 1
    /\ TheLayer.animations[1].easing = "ease-in-out"
    /\ IsNumber(TheLayer.animations[1].fromValue)
    /\ TheLayer.animations[1].fromValue # TheLayer.animations[1].toValue
    /\ \E i \in 1..Len(frames) :
          /\ InWindow(TheLayer.animations[1], frames[i].timestamp)
          /\ JsLess(Half, WindowProgress(TheLayer.animations[1], frames[i].timestamp))
          /\ JsLess(WindowProgress(TheLayer.animations[1], frames[i].timestamp), One)
          /\ FrameValue(i, "x") = Interpolated(TheLayer.animations[1], frames[i].timestamp)

\* C17: every scene loaded from a backend visualization with layers has
\* non-decreasing frame timestamps and a duration >= its last frame's timestamp.
LoadedSceneInvariant ==
    (currentVisualization.loaded /\ dbVisualization.hasLayers) =>
        /\ \A i \in 1..Len(frames) : \A j \in i..Len(frames) :
              frames[i].timestamp <= frames[j].timestamp
        /\ frames # <<>> =>
              currentVisualization.duration >= frames[Len(frames)].timestamp

----------------------------------------------------------------------------
(* VisualizationCanvas: frame lookup *)

\* indices the for loop of getCurrentFrame assigns to currentFrame before it
\* breaks, with < in place of <=
framesPassedStrict(fs, t) ==
    {i \in 1..Len(fs) : \A j \in 1..i : fs[j].timestamp < t}

getCurrentFrameStrict(fs, t) ==
    IF fs = <<>> THEN 0
    ELSE IF framesPassedStrict(fs, t) = {} THEN 1
    ELSE CHOOSE i \in framesPassedStrict(fs, t) :
             \A j \in framesPassedStrict(fs, t) : j <= i

\* indices the for loop of getCurrentFrame assigns to currentFrame: the
\* frames before the first one whose timestamp exceeds t, where it breaks
framesPassed(fs, t) ==
    {i \in 1..Len(fs) : \A j \in 1..i : fs[j].timestamp <= t}

\* index of the frame getCurrentFrame returns, 0 for null
getCurrentFrame(fs, t) ==
    IF fs = <<>> THEN 0
    ELSE IF framesPassed(fs, t) = {} THEN 1
    ELSE CHOOSE i \in framesPassed(fs, t) :
             \A j \in framesPassed(fs, t) : j <= i

\* render: the frame looked up for animationState.currentTime
Render ==
    /\ currentVisualization.loaded
    /\ last.op # "render"
    /\ queryTime' = animationState.currentTime
    /\ currentFrame' = getCurrentFrame(frames, animationState.currentTime)
    /\ last' = [op |-> "render", arg |-> animationState.currentTime, pre |-> animationState]
    /\ UNCHANGED <<animationState, currentVisualization, animationTimer, effectDeps,
                   pausedAt, samplerVars, viewVars>>
    /\ UNCHANGED <<serviceVars, canvasVars>>

----------------------------------------------------------------------------
(* getCurrentFrame applied to bounded frame lists with non-decreasing      *)
(* timestamps (the frames of a scene are whatever the producer sent) and   *)
(* to query times around them.                                             *)

MaxFrames == 3         \* longest frame list
MaxTimestamp == 3      \* largest frame timestamp

TimestampLists ==
    UNION {[1..n -> 0..MaxTimestamp] : n \in 0..MaxFrames}

SortedTimestampLists ==
    {l \in TimestampLists : \A i \in 1..Len(l) : \A j \in i..Len(l) : l[i] <= l[j]}

FrameLists ==
    {[i \in 1..Len(l) |-> [timestamp |-> l[i], objects |-> <<>>]] :
        l \in SortedTimestampLists}

QueryTimes == (0 - 1)..(MaxTimestamp + 1)

LookupInit ==
    /\ animationState = InitialAnimationState
    /\ currentVisualization = NoVisualization
    /\ animationTimer = FALSE
    /\ effectDeps = Deps(InitialAnimationState)
    /\ last = [op |-> "init", arg |-> 0, pre |-> InitialAnimationState]
    /\ pausedAt = NotPaused
    /\ dbVisualization = NoBackendVisualization
    /\ frames \in FrameLists
    /\ queryTime \in QueryTimes
    /\ currentFrame = 0
    /\ mounted = TRUE
    /\ pendingFrame = FALSE
    /\ committed = InitialAnimationState
    /\ sceneDirty = FALSE
    /\ pendingOp = "none"
    /\ playExit = "none"
    /\ renderLog = NoRender
    /\ ServiceIdle
    /\ CanvasBlank

\* one call getCurrentFrame(queryTime)
Lookup ==
    /\ last.op = "init"
    /\ currentFrame' = getCurrentFrame(frames, queryTime)
    /\ last' = [op |-> "lookup", arg |-> queryTime, pre |-> animationState]
    /\ UNCHANGED <<animationState, currentVisualization, animationTimer, effectDeps,
                   pausedAt, samplerVars, queryTime, viewVars>>
    /\ UNCHANGED <<serviceVars, canvasVars>>

LookupNext == Lookup

LookupSpec == LookupInit /\ [][LookupNext]_vars

\* C16: for a non-empty frame list with non-decreasing timestamps,
\* getCurrentFrame returns the last frame whose timestamp is <= the query
\* time (so never a later frame), the first frame for a query before all
\* timestamps and the last frame for a query past all of them.
LookupReturnsLastFrameAtOrBefore ==
    (last.op = "lookup" /\ frames # <<>>) =>
        LET atOrBefore == {i \in 1..Len(frames) : frames[i].timestamp <= queryTime}
        IN  /\ atOrBefore = {} => currentFrame = 1
            /\ atOrBefore # {} =>
                  /\ currentFrame \in atOrBefore
                  /\ \A i \in atOrBefore : i <= currentFrame
            /\ queryTime > frames[Len(frames)].timestamp => currentFrame = Len(frames)

LookupAmongRepeatedTimestamps ==
    /\ last.op = "lookup"
    /\ Len(frames) = 3
    /\ frames[1].timestamp = frames[2].timestamp
    /\ frames[2].timestamp = queryTime
    /\ frames[3].timestamp > queryTime
    /\ currentFrame = 2

----------------------------------------------------------------------------
(* End to end: the scene of one circle whose x goes from 100 to 400 over   *)
(* [0, 3000] with ease-out is loaded, a time is requested and rendered.    *)

CircleScenario ==
    [duration |-> 3000, hasLayers |-> TRUE,
     layers |-> <<[layerId |-> "circle1", type |-> "circle",
                   props |-> [radius |-> NumV(N(30)), fill |-> StrV(1), x |-> Undefined],
                   animations |-> <<[property |-> "x", fromValue |-> NumV(N(100)),
                                     toValue |-> NumV(N(400)), startTime |-> 0,
                                     endTime |-> 3000, easing |-> "ease-out"]>>]>>]

RequestStep == 50      \* spacing of the requested times
MaxRequestSteps == 60  \* requested times go up to RequestStep * MaxRequestSteps

RequestTimes == {k * RequestStep : k \in 0..MaxRequestSteps}

EndToEndInit ==
    /\ animationState = InitialAnimationState
    /\ currentVisualization = NoVisualization
    /\ animationTimer = FALSE
    /\ effectDeps = Deps(InitialAnimationState)
    /\ last = [op |-> "init", arg |-> 0, pre |-> InitialAnimationState]
    /\ pausedAt = NotPaused
    /\ dbVisualization = CircleScenario
    /\ frames = <<>>
    /\ CanvasIdle
    /\ ServiceIdle
    /\ CanvasBlank

\* one click on the progress bar of the freshly loaded scene
RequestTime ==
    /\ last.op = "load"
    /\ \E t \in RequestTimes : Seek(t)

EndToEndNext == Transform \/ RequestTime \/ Render

EndToEndSpec == EndToEndInit /\ [][EndToEndNext]_vars

\* C14: the object drawn for a requested time carries the animated value at
\* exactly that time; at currentTime = 1500 the circle's x is 325.
DrawnValueIsExact ==
    (last.op = "render" /\ currentFrame # 0) =>
        /\ frames[currentFrame].objects[1].properties.x
              = Interpolated(TheLayer.animations[1], queryTime)
        /\ queryTime = 1500 =>
              frames[currentFrame].objects[1].properties.x = NumV(N(325))

----------------------------------------------------------------------------
(* App together with VisualizationCanvas. A handler or an interval firing  *)
(* only queues its state update; React then commits: it re-renders with    *)
(* the new state and runs the effects whose dependencies changed (the      *)
(* canvas's animation loop effect and render effect, App's timer effect).  *)
(* The buttons and the progress bar act on what the last commit rendered.  *)
(* renderLog records the render passes of the last commit, or of the last  *)
(* animation frame callback.                                               *)

ViewSeekTimes == {0, TickMs, MaxDuration}

\* the update queued since the last commit, "many" for more than one
notePending(pending, op) == IF pending = "none" THEN op ELSE "many"

\* Controls and the canvas are rendered once a scene has been committed
Shown == renderLog # NoRender

\* cleanup of the animation loop effect: cancelAnimationFrame
loopEffectCleanup(pending) == FALSE

\* cleanup of the timer effect: clearInterval
timerEffectCleanup(timer) == FALSE

ViewInit ==
    /\ animationState = InitialAnimationState
    /\ currentVisualization = NoVisualization
    /\ animationTimer = FALSE
    /\ effectDeps = Deps(InitialAnimationState)
    /\ last = [op |-> "init", arg |-> 0, pre |-> InitialAnimationState]
    /\ pausedAt = NotPaused
    /\ dbVisualization = NoBackendVisualization
    /\ frames = <<>>
    /\ CanvasIdle
    /\ ServiceIdle
    /\ CanvasBlank

OnAnswerCreated(duration) ==
    /\ mounted
    /\ animationState' = loadVisualization(animationState, duration)
    /\ currentVisualization' = [loaded |-> TRUE, duration |-> duration]
    /\ sceneDirty' = TRUE
    /\ pendingOp' = notePending(pendingOp, "load")
    /\ playExit' = IF animationState.isPlaying THEN "replace" ELSE playExit
    /\ last' = [op |-> "load", arg |-> duration, pre |-> animationState]
    /\ UNCHANGED <<animationTimer, effectDeps, pausedAt, samplerVars, lookupVars,
                   mounted, pendingFrame, committed, renderLog>>
    /\ UNCHANGED <<serviceVars, canvasVars>>

OnPlay ==
    /\ mounted
    /\ Shown
    /\ committed.duration # 0
    /\ ~committed.isPlaying
    /\ animationState' = handlePlay(animationState)
    /\ pendingOp' = notePending(pendingOp, "play")
    /\ playExit' = "none"
    /\ last' = [op |-> "play", arg |-> 0, pre |-> animationState]
    /\ UNCHANGED <<currentVisualization, animationTimer, effectDeps, pausedAt,
                   samplerVars, lookupVars, mounted, pendingFrame, committed,
                   sceneDirty, renderLog>>
    /\ UNCHANGED <<serviceVars, canvasVars>>

OnPause ==
    /\ mounted
    /\ Shown
    /\ committed.duration # 0
    /\ committed.isPlaying
    /\ animationState' = handlePause(animationState)
    /\ pendingOp' = notePending(pendingOp, "pause")
    /\ playExit' = IF animationState.isPlaying THEN "pause" ELSE playExit
    /\ last' = [op |-> "pause", arg |-> 0, pre |-> animationState]
    /\ UNCHANGED <<currentVisualization, animationTimer, effectDeps, pausedAt,
                   samplerVars, lookupVars, mounted, pendingFrame, committed,
                   sceneDirty, renderLog>>
    /\ UNCHANGED <<serviceVars, canvasVars>>

OnRestart ==
    /\ mounted
    /\ Shown
    /\ committed.duration # 0
    /\ animationState' = handleRestart(animationState)
    /\ pendingOp' = notePending(pendingOp, "restart")
    /\ playExit' = IF animationState.isPlaying THEN "pause" ELSE playExit
    /\ last' = [op |-> "restart", arg |-> 0, pre |-> animationState]
    /\ UNCHANGED <<currentVisualization, animationTimer, effectDeps, pausedAt,
                   samplerVars, lookupVars, mounted, pendingFrame, committed,
                   sceneDirty, renderLog>>
    /\ UNCHANGED <<serviceVars, canvasVars>>

OnSeek(time) ==
    /\ mounted
    /\ Shown
    /\ animationState' = handleSeek(animationState, time)
    /\ pendingOp' = notePending(pendingOp, "seek")
    /\ last' = [op |-> "seek", arg |-> time, pre |-> animationState]
    /\ UNCHANGED <<currentVisualization, animationTimer, effectDeps, pausedAt,
                   samplerVars, lookupVars, mounted, pendingFrame, committed,
                   sceneDirty, playExit, renderLog>>
    /\ UNCHANGED <<serviceVars, canvasVars>>

\* the interval created by the timer effect fires
IntervalFires ==
    /\ mounted
    /\ animationTimer
    /\ animationState' = timerTick(animationState)
    /\ pendingOp' = notePending(pendingOp, "tick")
    /\ playExit' = IF animationState.isPlaying /\ ~timerTick(animationState).isPlaying
                   THEN "end" ELSE playExit
    /\ last' = [op |-> "tick", arg |-> 0, pre |-> animationState]
    /\ UNCHANGED <<currentVisualization, animationTimer, effectDeps, pausedAt,
                   samplerVars, lookupVars, mounted, pendingFrame, committed,
                   sceneDirty, renderLog>>
    /\ UNCHANGED <<serviceVars, canvasVars>>

\* React commits the queued updates and runs the effects. render is a new
\* callback when getCurrentFrame (the scene's frames) or currentTime changed;
\* the loop effect depends on [isPlaying, render], the render effect on
\* [render], the timer effect on [isPlaying, duration].
Commit ==
    /\ mounted
    /\ pendingOp # "none"
    /\ currentVisualization.loaded
    /\ LET renderChanged == \/ ~Shown
                            \/ sceneDirty
                            \/ committed.currentTime # animationState.currentTime
           loopRuns == renderChanged \/ committed.isPlaying # animationState.isPlaying
           timerRuns == effectDeps # Deps(animationState)
           loopPasses == IF loopRuns THEN <<animationState.currentTime>> ELSE <<>>
           renderPasses == IF renderChanged THEN <<animationState.currentTime>> ELSE <<>>
       IN  /\ pendingFrame' = IF loopRuns
                              THEN loopEffectCleanup(pendingFrame) \/ animationState.isPlaying
                              ELSE pendingFrame
           /\ animationTimer' = IF timerRuns
                                THEN \/ timerEffectCleanup(animationTimer)
                                     \/ (animationState.isPlaying /\ animationState.duration > 0)
                                ELSE animationTimer
           /\ renderLog' = [op |-> pendingOp, passes |-> loopPasses \o renderPasses]
    /\ effectDeps' = Deps(animationState)
    /\ committed' = animationState
    /\ sceneDirty' = FALSE
    /\ pendingOp' = "none"
    /\ last' = [op |-> "commit", arg |-> 0, pre |-> animationState]
    /\ UNCHANGED <<animationState, currentVisualization, pausedAt, samplerVars,
                   lookupVars, mounted, playExit>>
    /\ UNCHANGED <<serviceVars, canvasVars>>

\* the scheduled animate callback runs: it renders what its commit rendered
\* and, created while playing, schedules itself again
Animate ==
    /\ mounted
    /\ pendingFrame
    /\ renderLog' = [op |-> "frame", passes |-> <<committed.currentTime>>]
    /\ pendingFrame' = committed.isPlaying
    /\ last' = [op |-> "frame", arg |-> 0, pre |-> animationState]
    /\ UNCHANGED <<animationState, currentVisualization, animationTimer, effectDeps,
                   pausedAt, samplerVars, lookupVars, mounted, committed, sceneDirty,
                   pendingOp, playExit>>
    /\ UNCHANGED <<serviceVars, canvasVars>>

\* App is unmounted: every effect's cleanup runs
Unmount ==
    /\ mounted
    /\ mounted' = FALSE
    /\ pendingFrame' = loopEffectCleanup(pendingFrame)
    /\ animationTimer' = timerEffectCleanup(animationTimer)
    /\ playExit' = IF animationState.isPlaying \/ committed.isPlaying
                   THEN "unmount" ELSE playExit
    /\ last' = [op |-> "unmount", arg |-> 0, pre |-> animationState]
    /\ UNCHANGED <<animationState, currentVisualization, effectDeps, pausedAt,
                   samplerVars, lookupVars, committed, sceneDirty, pendingOp, renderLog>>
    /\ UNCHANGED <<serviceVars, canvasVars>>

ViewNext ==
    \/ \E d \in Durations : OnAnswerCreated(d)
    \/ OnPlay
    \/ OnPause
    \/ OnRestart
    \/ \E t \in ViewSeekTimes : OnSeek(t)
    \/ IntervalFires
    \/ Commit
    \/ Animate
    \/ Unmount

ViewSpec == ViewInit /\ [][ViewNext]_vars

----------------------------------------------------------------------------
(* Properties of the view *)

\* C19: on every exit path from playing (pause, automatic end, scene
\* replacement, unmount), once the exit has been processed (committed, or
\* the view unmounted) no interval and no animation frame callback is
\* pending.
ExitReleasesTimers ==
    (playExit # "none" /\ (~mounted \/ pendingOp = "none")) =>
        (~animationTimer /\ ~pendingFrame)

\* C20: the commit of one tick or of one call to play, pause, restart or
\* seek makes exactly one render pass, with the new currentTime.
OneRenderPassPerUpdate ==
    (last.op = "commit" /\ renderLog.op \in {"tick", "play", "pause", "restart", "seek"}) =>
        renderLog.passes = <<animationState.currentTime>>

----------------------------------------------------------------------------
(* SSEService (src/services/sseService.ts) with its clients: App, which    *)
(* registers its handlers and connects when it mounts and disconnects when *)
(* it unmounts, and direct calls of connect() and disconnect() such as the *)
(* reconnect button of ChatPanel makes. The browser opens a connecting     *)
(* EventSource or reports an error on a live one, after which that source  *)
(* is connecting again (the browser retries) or closed. What an App        *)
(* handler does with an event is the controller's AnswerCreated; here only *)
(* the number of handlers run is recorded. The URL is a valid constant, so *)
(* new EventSource does not throw.                                         *)

MaxMounts == 2          \* times App is mounted in one run
MaxPendingTimers == 5   \* reconnect timers pending at once

viewRest == <<pendingFrame, committed, sceneDirty, pendingOp, playExit, renderLog>>

Created == {s \in Sources : readyState[s] # "unborn"}

CanCreate == Cardinality(Created) < MaxSources

Backoff ==
    [attempts |-> reconnectAttempts, delay |-> reconnectDelay, timers |-> reconnectTimers,
     refused |-> FALSE]

handleReconnectUnguarded(b) ==
    [attempts |-> b.attempts + 1,
     delay |-> Min(b.delay * 2, MaxReconnectDelay),
     timers |-> b.timers + 1,
     refused |-> FALSE]

\* handleReconnect on the fields it reads and writes; timers counts the
\* setTimeout callbacks it has scheduled
handleReconnect(b) ==
    IF b.attempts >= maxReconnectAttempts
    THEN [b EXCEPT !.refused = TRUE]
    ELSE [attempts |-> b.attempts + 1,
          delay |-> Min(b.delay * 2, MaxReconnectDelay),
          timers |-> b.timers + 1,
          refused |-> FALSE]

\* connect(): returns at once when the current EventSource is open, else
\* creates a new one without closing the current one
connect(es, rs) ==
    IF es # 0 /\ rs[es] = "open"
    THEN [eventSource |-> es, readyState |-> rs]
    ELSE LET new == Cardinality({s \in Sources : rs[s] # "unborn"}) + 1
         IN  [eventSource |-> new, readyState |-> [rs EXCEPT ![new] = "connecting"]]

Connects(es, rs) == ~(es # 0 /\ rs[es] = "open")

\* eventSource.close() on the current EventSource, if any
closeCurrent(es, rs) == IF es # 0 THEN [rs EXCEPT ![es] = "closed"] ELSE rs

ServiceInit ==
    /\ animationState = InitialAnimationState
    /\ currentVisualization = NoVisualization
    /\ animationTimer = FALSE
    /\ effectDeps = Deps(InitialAnimationState)
    /\ last = [op |-> "init", arg |-> 0, pre |-> InitialAnimationState]
    /\ pausedAt = NotPaused
    /\ dbVisualization = NoBackendVisualization
    /\ frames = <<>>
    /\ queryTime = 0
    /\ currentFrame = 0
    /\ mounted = FALSE
    /\ pendingFrame = FALSE
    /\ committed = InitialAnimationState
    /\ sceneDirty = FALSE
    /\ pendingOp = "none"
    /\ playExit = "none"
    /\ renderLog = NoRender
    /\ ServiceIdle
    /\ CanvasBlank

\* App mounts: the SSE effect registers one handler per event type and connects
MountApp ==
    /\ ~mounted
    /\ \A t \in EventTypes : listeners[t] < MaxMounts
    /\ Connects(eventSource, readyState) => CanCreate
    /\ mounted' = TRUE
    /\ listeners' = [t \in EventTypes |-> listeners[t] + 1]
    /\ eventSource' = connect(eventSource, readyState).eventSource
    /\ readyState' = connect(eventSource, readyState).readyState
    /\ serviceLog' = [op |-> "mount", handled |-> 0, scheduled |-> serviceLog.scheduled,
                      disconnected |-> FALSE, refused |-> FALSE]
    /\ UNCHANGED <<reconnectAttempts, reconnectDelay, reconnectTimers, isConnected>>
    /\ UNCHANGED <<controllerVars, samplerVars, lookupVars, viewRest, canvasVars>>

\* disconnect(clearListeners)
Disconnect(clearListeners) ==
    /\ readyState' = closeCurrent(eventSource, readyState)
    /\ eventSource' = 0
    /\ isConnected' = FALSE
    /\ listeners' = IF clearListeners THEN [t \in EventTypes |-> 0] ELSE listeners
    /\ serviceLog' = [op |-> "disconnect", handled |-> 0, scheduled |-> serviceLog.scheduled,
                      disconnected |-> TRUE, refused |-> FALSE]
    /\ UNCHANGED <<reconnectAttempts, reconnectDelay, reconnectTimers>>
    /\ UNCHANGED <<controllerVars, samplerVars, lookupVars, viewRest, canvasVars>>

\* App unmounts: the cleanup of the SSE effect calls disconnect()
UnmountApp ==
    /\ mounted
    /\ mounted' = FALSE
    /\ Disconnect(FALSE)

\* a direct call of disconnect
ClientDisconnect ==
    /\ serviceLog.op # "disconnect"
    /\ \E clearListeners \in BOOLEAN : Disconnect(clearListeners)
    /\ UNCHANGED mounted

\* a direct call of connect()
ClientConnect ==
    /\ Connects(eventSource, readyState) => CanCreate
    /\ serviceLog.op # "connect"
    /\ eventSource' = connect(eventSource, readyState).eventSource
    /\ readyState' = connect(eventSource, readyState).readyState
    /\ serviceLog' = [op |-> "connect", handled |-> 0, scheduled |-> serviceLog.scheduled,
                      disconnected |-> FALSE, refused |-> FALSE]
    /\ UNCHANGED <<reconnectAttempts, reconnectDelay, reconnectTimers, listeners,
                   isConnected, mounted>>
    /\ UNCHANGED <<controllerVars, samplerVars, lookupVars, viewRest, canvasVars>>

\* onopen of a connecting EventSource
SourceOpens(s) ==
    /\ readyState[s] = "connecting"
    /\ readyState' = [readyState EXCEPT ![s] = "open"]
    /\ reconnectAttempts' = 0
    /\ reconnectDelay' = InitialReconnectDelay
    /\ isConnected' = TRUE
    /\ serviceLog' = [op |-> "open", handled |-> 0, scheduled |-> 0,
                      disconnected |-> serviceLog.disconnected, refused |-> FALSE]
    /\ UNCHANGED <<eventSource, reconnectTimers, listeners, mounted>>
    /\ UNCHANGED <<controllerVars, samplerVars, lookupVars, viewRest, canvasVars>>

\* onerror of a live EventSource, which the browser left connecting again
\* (fatal = FALSE) or closed (fatal = TRUE); the handler tests the readyState
\* of this.eventSource
SourceError(s, fatal) ==
    /\ readyState[s] \in {"connecting", "open"}
    /\ LET rs == [readyState EXCEPT ![s] = IF fatal THEN "closed" ELSE "connecting"]
           reconnects == eventSource = 0 \/ rs[eventSource] # "closed"
           b == IF reconnects THEN handleReconnect(Backoff) ELSE Backoff
       IN  /\ b.timers <= MaxPendingTimers
           /\ readyState' = rs
           /\ reconnectAttempts' = b.attempts
           /\ reconnectDelay' = b.delay
           /\ reconnectTimers' = b.timers
           /\ serviceLog' = [op |-> "error", handled |-> 0,
                             scheduled |-> serviceLog.scheduled + (b.timers - reconnectTimers),
                             disconnected |-> serviceLog.disconnected,
                             refused |-> b.refused]
    /\ isConnected' = FALSE
    /\ UNCHANGED <<eventSource, listeners, mounted>>
    /\ UNCHANGED <<controllerVars, samplerVars, lookupVars, viewRest, canvasVars>>

\* a setTimeout callback of handleReconnect runs: it closes the current
\* EventSource, if any, and connects
ReconnectTimer ==
    /\ reconnectTimers > 0
    /\ CanCreate
    /\ reconnectTimers' = reconnectTimers - 1
    /\ eventSource' = connect(0, closeCurrent(eventSource, readyState)).eventSource
    /\ readyState' = connect(0, closeCurrent(eventSource, readyState)).readyState
    /\ serviceLog' = [op |-> "reconnect", handled |-> 0, scheduled |-> serviceLog.scheduled,
                      disconnected |-> serviceLog.disconnected, refused |-> FALSE]
    /\ UNCHANGED <<reconnectAttempts, reconnectDelay, listeners, isConnected, mounted>>
    /\ UNCHANGED <<controllerVars, samplerVars, lookupVars, viewRest, canvasVars>>

\* an open EventSource receives answer_created: handleEvent runs every
\* callback registered for it
Deliver ==
    /\ \E s \in Sources : readyState[s] = "open"
    /\ serviceLog.op # "deliver"
    /\ serviceLog' = [op |-> "deliver", handled |-> listeners["answer_created"],
                      scheduled |-> serviceLog.scheduled,
                      disconnected |-> serviceLog.disconnected, refused |-> FALSE]
    /\ UNCHANGED <<eventSource, readyState, reconnectAttempts, reconnectDelay,
                   reconnectTimers, listeners, isConnected, mounted>>
    /\ UNCHANGED <<controllerVars, samplerVars, lookupVars, viewRest, canvasVars>>

ServiceNext ==
    \/ MountApp
    \/ UnmountApp
    \/ ClientConnect
    \/ ClientDisconnect
    \/ \E s \in Sources : SourceOpens(s)
    \/ \E s \in Sources, fatal \in BOOLEAN : SourceError(s, fatal)
    \/ ReconnectTimer
    \/ Deliver

ServiceSpec == ServiceInit /\ [][ServiceNext]_vars

----------------------------------------------------------------------------
(* Properties of the SSE service *)

\* C26: after any sequence of App mounts and unmounts every event type has
\* at most one App handler registered, so an answer_created event delivered
\* while App is mounted is handled exactly once.
OneHandlerPerEventType ==
    /\ \A t \in EventTypes : listeners[t] <= 1
    /\ (serviceLog.op = "deliver" /\ mounted /\ listeners["answer_created"] > 0)
          => serviceLog.handled = 1

\* C27: after disconnect() has returned and until a client calls connect()
\* again the service holds no EventSource: none is created, not even by a
\* reconnect timer that was pending at the disconnect.
DisconnectStopsReconnects ==
    serviceLog.disconnected => eventSource = 0

\* C28: 0 <= reconnectAttempts <= maxReconnectAttempts in every state; at
\* most maxReconnectAttempts reconnects are scheduled between two opens, a
\* further failure schedules none; an open resets reconnectAttempts to 0 and
\* reconnectDelay to 1000.
ReconnectAttemptsBounded ==
    /\ reconnectAttempts \in 0..maxReconnectAttempts
    /\ serviceLog.scheduled <= maxReconnectAttempts
    /\ serviceLog.refused => reconnectAttempts = maxReconnectAttempts
    /\ serviceLog.op = "open" =>
          (reconnectAttempts = 0 /\ reconnectDelay = InitialReconnectDelay)

ReconnectRefusedAtMaximum ==
    /\ serviceLog.op = "error"
    /\ serviceLog.refused
    /\ serviceLog.scheduled = maxReconnectAttempts
    /\ reconnectAttempts = maxReconnectAttempts
    /\ reconnectDelay = MaxReconnectDelay

\* C29: at any time at most one EventSource created by the service is
\* connecting or open.
AtMostOneLiveSource ==
    Cardinality({s \in Sources : readyState[s] \in {"connecting", "open"}}) <= 1

----------------------------------------------------------------------------
(* VisualizationCanvas: one render pass. drawLog lists the calls of a pass *)
(* in order: operations on the 2d context and, under the name of the       *)
(* function, each geometry function entered. An entry carries the index of *)
(* the object it was made for (0 for the background and the placeholder)   *)
(* and its arguments as property values. A property value can also be a    *)
(* list: [t |-> "list"] with v the number of its elements. Strings are     *)
(* numbered; "" is 0. Angles that the code computes with Math.PI, cos and  *)
(* sin are recorded by what they are computed from: rotate by its degrees, *)
(* an arrow-head point by the shaft's end points, a particle by its index, *)
(* the particle count and its distance. Properties that no object of the   *)
(* input sets has (strokeWidth, lineCap, dashPattern, r, headSize, bonds,  *)
(* ...) are left out of the property bags: the code's tests on them take   *)
(* the branch of an absent property.                                       *)

ListV(n) == [t |-> "list", v |-> N(n)]

EmptyString == StrV(0)
White == StrV(2)              \* '#ffffff'
Grey == StrV(3)               \* '#666666'
PlaceholderFont == StrV(4)    \* '16px Arial'
Center == StrV(5)             \* 'center'
Middle == StrV(6)             \* 'middle'
PlaceholderText == StrV(7)    \* 'No visualization data'
AtomColour == StrV(8)         \* '#4ecdc4'
ParticleColour == StrV(9)     \* '#ff6b6b'

CanvasWidth == 800            \* width given to VisualizationCanvas
CanvasHeight == 500           \* height given to VisualizationCanvas

\* JavaScript truthiness
Truthy(val) ==
    CASE val.t = "num" -> ~IsNaN(val.v) /\ val.v # Zero
      [] val.t = "str" -> val.v # Zero
      [] val.t = "list" -> TRUE
      [] OTHER -> FALSE

\* a || b
JsOr(a, b) == IF Truthy(a) THEN a ELSE b

\* ToNumber of a number or of undefined
ToNumber(val) == IF val.t = "num" THEN val.v ELSE NaN

Call(c, o, a) == [cmd |-> c, obj |-> o, args |-> a]

Drawn(l) == [log |-> l, thrown |-> FALSE]

Raised(l) == [log |-> l, thrown |-> TRUE]

drawCircle(props, o) ==
    <<Call("drawCircle", o, <<>>),
      Call("beginPath", o, <<>>),
      Call("arc", o, <<NumV(Zero), NumV(Zero), JsOr(props.radius, NumV(N(20)))>>)>>
    \o (IF Truthy(props.color) \/ Truthy(props.fill)
        THEN <<Call("fill", o, <<>>)>> ELSE <<>>)
    \o (IF Truthy(props.stroke) THEN <<Call("stroke", o, <<>>)>> ELSE <<>>)

\* startX = props.startX || props.dx ? -props.dx/2 : -30 is parsed as
\* (props.startX || props.dx) ? -props.dx/2 : -30
arrowStart(given, delta, default) ==
    IF Truthy(JsOr(given, delta))
    THEN NumV(JsDiv(JsNeg(ToNumber(delta)), Two))
    ELSE NumV(default)

drawArrow(props, o) ==
    LET startX == arrowStart(props.startX, props.dx, N(0 - 30))
        startY == arrowStart(props.startY, props.dy, Zero)
        endX == JsOr(JsOr(props.endX, props.dx), NumV(N(30)))
        endY == JsOr(JsOr(props.endY, props.dy), NumV(Zero))
    IN  <<Call("drawArrow", o, <<>>),
          Call("beginPath", o, <<>>),
          Call("moveTo", o, <<startX, startY>>),
          Call("lineTo", o, <<endX, endY>>),
          Call("lineToHeadLeft", o, <<startX, startY, endX, endY>>),
          Call("moveTo", o, <<endX, endY>>),
          Call("lineToHeadRight", o, <<startX, startY, endX, endY>>)>>
        \o (IF Truthy(props.stroke) \/ Truthy(props.color)
            THEN <<Call("strokeStyle", o, <<JsOr(props.stroke, props.color)>>),
                   Call("stroke", o, <<>>)>>
            ELSE <<>>)

\* one atom of a list of atoms: atom k is {x: 10 * k, y: 0}
drawAtom(props, o, k) ==
    <<Call("fillStyle", o, <<AtomColour>>),
      Call("beginPath", o, <<>>),
      Call("arc", o, <<NumV(N(10 * k)), NumV(Zero), NumV(N(8))>>),
      Call("fill", o, <<>>)>>

RECURSIVE drawAtoms(_, _, _, _)
drawAtoms(props, o, k, n) ==
    IF k > n THEN <<>> ELSE drawAtom(props, o, k) \o drawAtoms(props, o, k + 1, n)

\* atoms = props.atoms || []; atoms.forEach raises a TypeError when atoms is
\* a truthy value that is not an array
drawMolecule(props, o) ==
    LET atoms == JsOr(props.atoms, ListV(0))
    IN  IF atoms.t = "list"
        THEN Drawn(<<Call("drawMolecule", o, <<>>)>> \o drawAtoms(props, o, 1, atoms.v[1]))
        ELSE Raised(<<Call("drawMolecule", o, <<>>)>>)

\* particle i of count; random[i + 1] is its value of Math.random()
RECURSIVE drawParticles(_, _, _, _, _)
drawParticles(props, o, i, count, random) ==
    IF i >= count THEN <<>>
    ELSE LET distance == JsAdd(JsMul(random[i + 1], N(30)), N(10))
         IN  <<Call("fillStyle", o,
                    <<JsOr(JsOr(props.color, props.fill), ParticleColour)>>),
               Call("beginPath", o, <<>>),
               Call("arcAtParticle", o, <<NumV(N(i)), NumV(N(count)), NumV(distance), NumV(N(3))>>),
               Call("fill", o, <<>>)>>
             \o drawParticles(props, o, i + 1, count, random)

drawParticle(props, o, random) ==
    <<Call("drawParticle", o, <<>>)>>
    \o drawParticles(props, o, 0, JsOr(props.particleCount, NumV(N(10))).v[1], random)

unknownTypeRaises(obj, o) == Raised(<<>>)

\* default branch of the switch: console.warn
unknownType(obj, o) == Drawn(<<Call("warn", o, <<>>)>>)

\* the switch of drawObject
geometry(obj, o, random) ==
    CASE obj.type = "circle" -> Drawn(drawCircle(obj.properties, o))
      [] obj.type = "arrow" -> Drawn(drawArrow(obj.properties, o))
      [] obj.type = "molecule" -> drawMolecule(obj.properties, o)
      [] obj.type = "particle" -> Drawn(drawParticle(obj.properties, o, random))
      [] OTHER -> unknownType(obj, o)

\* drawObject up to the switch: save, transformations, styles
transforms(props, o) ==
    <<Call("save", o, <<>>)>>
    \o (IF props.x # Undefined /\ props.y # Undefined
        THEN <<Call("translate", o, <<props.x, props.y>>)>> ELSE <<>>)
    \o (IF Truthy(props.rotation)
        THEN <<Call("rotate", o, <<props.rotation>>)>> ELSE <<>>)
    \o (IF Truthy(props.scale)
        THEN <<Call("scale", o, <<props.scale, props.scale>>)>> ELSE <<>>)
    \o (IF props.opacity # Undefined
        THEN <<Call("globalAlpha", o, <<props.opacity>>)>> ELSE <<>>)
    \o (IF Truthy(props.color) \/ Truthy(props.fill)
        THEN <<Call("fillStyle", o, <<JsOr(props.color, props.fill)>>)>> ELSE <<>>)
    \o (IF Truthy(props.stroke)
        THEN <<Call("strokeStyle", o, <<props.stroke>>),
               Call("lineWidth", o, <<NumV(One)>>),
               Call("lineCap", o, <<>>)>>
        ELSE <<>>)

\* drawObject: an exception of the geometry function leaves it before restore
drawObject(obj, o, random) ==
    LET g == geometry(obj, o, random)
    IN  IF g.thrown
        THEN Raised(transforms(obj.properties, o) \o g.log)
        ELSE Drawn(transforms(obj.properties, o) \o g.log \o <<Call("restore", o, <<>>)>>)

\* currentFrame.objects.forEach from object o on
RECURSIVE drawObjects(_, _, _)
drawObjects(objects, o, random) ==
    IF o > Len(objects) THEN Drawn(<<>>)
    ELSE LET d == drawObject(objects[o], o, random)
         IN  IF d.thrown THEN d
             ELSE LET rest == drawObjects(objects, o + 1, random)
                  IN  [log |-> d.log \o rest.log, thrown |-> rest.thrown]

background(width, height) ==
    <<Call("clearRect", 0, <<NumV(Zero), NumV(Zero), NumV(N(width)), NumV(N(height))>>),
      Call("fillStyle", 0, <<White>>),
      Call("fillRect", 0, <<NumV(Zero), NumV(Zero), NumV(N(width)), NumV(N(height))>>)>>

placeholderSilent(width, height) == <<>>

placeholder(width, height) ==
    <<Call("fillStyle", 0, <<Grey>>),
      Call("font", 0, <<PlaceholderFont>>),
      Call("textAlign", 0, <<Center>>),
      Call("textBaseline", 0, <<Middle>>),
      Call("fillText", 0, <<PlaceholderText, NumV(Num(width, 2)), NumV(Num(height, 2))>>)>>

\* visualization?.frames, <<>> when the scene or the field is missing
framesOf(vis) == IF vis.present /\ vis.hasFrames THEN vis.frames ELSE <<>>

\* render: without a scene the component renders no canvas element and
\* render returns at once
render(vis, currentTime, random) ==
    IF ~vis.present THEN Drawn(<<>>)
    ELSE LET f == getCurrentFrame(framesOf(vis), currentTime)
         IN  IF f = 0
             THEN Drawn(background(CanvasWidth, CanvasHeight)
                        \o placeholder(CanvasWidth, CanvasHeight))
             ELSE LET d == drawObjects(framesOf(vis)[f].objects, 1, random)
                  IN  [log |-> background(CanvasWidth, CanvasHeight) \o d.log,
                       thrown |-> d.thrown]

----------------------------------------------------------------------------
(* Render passes over bounded scenes: no scene, a scene without a frames   *)
(* field, with no frame, with one frame or with two; a frame holds one     *)
(* object of any of the sets below or up to MaxObjects objects of a small  *)
(* pool. Math.random() returns one of RandomValues.                        *)

MaxObjects == 3        \* longest list of pooled objects in a frame
MaxParticles == 2      \* largest particleCount
MaxPasses == 2         \* render passes over one scene

RandomValues == {Zero, Half}

PropKeys ==
    {"x", "y", "rotation", "scale", "opacity", "color", "fill", "stroke", "radius",
     "startX", "startY", "endX", "endY", "dx", "dy", "atoms", "particleCount"}

NoProps == [k \in PropKeys |-> Undefined]

Object(type, properties) == [id |-> "o", type |-> type, properties |-> properties]

Positions ==
    {<<Undefined, Undefined>>, <<NumV(N(5)), Undefined>>,
     <<NumV(Zero), NumV(Zero)>>, <<NumV(N(5)), NumV(N(7))>>}

TransformObjects ==
    {Object("circle", [NoProps EXCEPT !.fill = StrV(1), !.x = pos[1], !.y = pos[2],
                                      !.rotation = rotation, !.scale = scale,
                                      !.opacity = opacity]) :
        pos \in Positions,
        rotation \in {Undefined, NumV(Zero), NumV(N(90))},
        scale \in {Undefined, NumV(Zero), NumV(Two)},
        opacity \in {Undefined, NumV(Zero), NumV(Half)}}

ArrowObjects ==
    {Object("arrow", [NoProps EXCEPT !.stroke = StrV(1), !.startX = startX,
                                     !.startY = startY, !.dx = dx, !.dy = dy]) :
        startX \in {Undefined, NumV(N(10))},
        startY \in {Undefined, NumV(N(12))},
        dx \in {Undefined, NumV(N(40))},
        dy \in {Undefined, NumV(N(20))}}

WaterFormula == StrV(10)      \* atoms given as the string 'H2O'

MoleculeObjects ==
    {Object("molecule", [NoProps EXCEPT !.atoms = atoms]) :
        atoms \in {Undefined, ListV(0), ListV(2), WaterFormula, EmptyString,
                   NumV(Zero), NumV(N(5))}}

ParticleObjects ==
    {Object("particle", [NoProps EXCEPT !.particleCount = NumV(N(count))]) :
        count \in 1..MaxParticles}

PlainCircle == Object("circle", [NoProps EXCEPT !.fill = StrV(1)])

Hexagon == Object("hexagon", [NoProps EXCEPT !.fill = StrV(1)])

BrokenMolecule == Object("molecule", [NoProps EXCEPT !.atoms = WaterFormula])

SmallMolecule == Object("molecule", [NoProps EXCEPT !.atoms = ListV(2)])

ObjectPool == {PlainCircle, Hexagon, BrokenMolecule, SmallMolecule}

ObjectLists ==
    {<<>>}
    \cup {<<obj>> : obj \in TransformObjects \cup ArrowObjects \cup MoleculeObjects
                              \cup ParticleObjects}
    \cup UNION {[1..n -> ObjectPool] : n \in 1..MaxObjects}

Scene(fs) == [present |-> TRUE, hasFrames |-> TRUE, frames |-> fs]

DrawScenes ==
    {NoScene, [present |-> TRUE, hasFrames |-> FALSE, frames |-> <<>>], Scene(<<>>)}
    \cup {Scene(<<[timestamp |-> 0, objects |-> objs]>>) : objs \in ObjectLists}
    \cup {Scene(<<[timestamp |-> 0, objects |-> <<PlainCircle>>],
                  [timestamp |-> TickMs, objects |-> objs]>>) :
             objs \in {<<Hexagon, PlainCircle>>, <<SmallMolecule>>}}

DrawTimes == {0, TickMs}

DrawInit ==
    /\ animationState = InitialAnimationState
    /\ currentVisualization = NoVisualization
    /\ animationTimer = FALSE
    /\ effectDeps = Deps(InitialAnimationState)
    /\ last = [op |-> "init", arg |-> 0, pre |-> InitialAnimationState]
    /\ pausedAt = NotPaused
    /\ dbVisualization = NoBackendVisualization
    /\ frames = <<>>
    /\ queryTime \in DrawTimes
    /\ currentFrame = 0
    /\ mounted = TRUE
    /\ pendingFrame = FALSE
    /\ committed = InitialAnimationState
    /\ sceneDirty = FALSE
    /\ pendingOp = "none"
    /\ playExit = "none"
    /\ renderLog = NoRender
    /\ ServiceIdle
    /\ visualization \in DrawScenes
    /\ drawLog = <<>>
    /\ previousLog = <<>>
    /\ thrown = FALSE

\* one call of render() at currentTime = queryTime; an exception that leaves
\* render ends the component, so no pass follows it
RenderPass ==
    /\ last.op \in {"init", "draw"}
    /\ last.arg < MaxPasses
    /\ ~thrown
    /\ \E random \in [1..MaxParticles -> RandomValues] :
          /\ drawLog' = render(visualization, queryTime, random).log
          /\ thrown' = render(visualization, queryTime, random).thrown
    /\ previousLog' = drawLog
    /\ currentFrame' = getCurrentFrame(framesOf(visualization), queryTime)
    /\ last' = [op |-> "draw", arg |-> last.arg + 1, pre |-> animationState]
    /\ UNCHANGED <<animationState, currentVisualization, animationTimer, effectDeps,
                   pausedAt, samplerVars, queryTime, viewVars, serviceVars, visualization>>

DrawNext == RenderPass

DrawSpec == DrawInit /\ [][DrawNext]_vars

----------------------------------------------------------------------------
(* Properties of a render pass *)

\* the objects of the frame the last pass looked up
FrameObjects ==
    IF currentFrame = 0 THEN <<>> ELSE framesOf(visualization)[currentFrame].objects

EntriesOf(o, c) == {i \in 1..Len(drawLog) : drawLog[i].obj = o /\ drawLog[i].cmd = c}

GeometryNames == {"drawCircle", "drawArrow", "drawMolecule", "drawParticle"}

KnownTypes == {"circle", "arrow", "molecule", "particle"}

\* the object's geometry function is known to raise: a molecule whose atoms
\* are a truthy value that is not a list
Malformed(obj) ==
    /\ obj.type = "molecule"
    /\ Truthy(obj.properties.atoms)
    /\ obj.properties.atoms.t # "list"

\* C21: a failure while drawing one object does not abort the frame: the
\* pass ends without an exception, every object that is not malformed has
\* been drawn, and save and restore are balanced.
ObjectFailureIsContained ==
    (last.op = "draw" /\ currentFrame # 0) =>
        /\ ~thrown
        /\ \A o \in 1..Len(FrameObjects) :
              ~Malformed(FrameObjects[o]) => EntriesOf(o, "restore") # {}
        /\ Cardinality({i \in 1..Len(drawLog) : drawLog[i].cmd = "save"})
              = Cardinality({i \in 1..Len(drawLog) : drawLog[i].cmd = "restore"})

\* the geometry functions entered by the last pass, as object indices in order
GeometryCalls ==
    LET calls == SelectSeq(drawLog, LAMBDA e : e.cmd \in GeometryNames)
    IN  [i \in 1..Len(calls) |-> calls[i].obj]

\* C22: an object of unknown type does not raise and does not keep its
\* siblings from being drawn: its save is matched by a restore, and the
\* geometry functions entered are those of the objects of known type, in
\* list order, up to the first malformed one (all of them when none is
\* malformed).
UnknownTypeIsSkipped ==
    (last.op = "draw" /\ currentFrame # 0) =>
        /\ \A o \in 1..Len(FrameObjects) :
              FrameObjects[o].type \notin KnownTypes =>
                  /\ Cardinality(EntriesOf(o, "save")) = Cardinality(EntriesOf(o, "restore"))
                  /\ \A i \in 1..Len(drawLog) :
                        drawLog[i].obj = o => drawLog[i].cmd \notin GeometryNames
        /\ GeometryCalls =
              SelectSeq([o \in 1..Len(FrameObjects) |-> o],
                        LAMBDA o : /\ FrameObjects[o].type \in KnownTypes
                                   /\ \A j \in 1..(o - 1) : ~Malformed(FrameObjects[j]))
        /\ (thrown => \E o \in 1..Len(FrameObjects) : Malformed(FrameObjects[o]))

SiblingsDrawnAroundUnknown ==
    /\ last.op = "draw"
    /\ ~thrown
    /\ Len(FrameObjects) = 3
    /\ FrameObjects[1].type = "circle"
    /\ FrameObjects[2].type = "hexagon"
    /\ FrameObjects[3].type = "molecule"
    /\ GeometryCalls = <<1, 3>>
    /\ EntriesOf(2, "warn") # {}
    /\ EntriesOf(2, "restore") # {}

\* the last pass cleared the canvas, filled the background, wrote the text
\* placeholder at the centre and drew no object
ShowsPlaceholder ==
    /\ Len(drawLog) > 3
    /\ drawLog[1].cmd = "clearRect"
    /\ drawLog[3].cmd = "fillRect"
    /\ drawLog[Len(drawLog)] =
          Call("fillText", 0, <<PlaceholderText, NumV(Num(CanvasWidth, 2)),
                                NumV(Num(CanvasHeight, 2))>>)
    /\ \A i \in 1..Len(drawLog) : drawLog[i].obj = 0

\* C23 as stated: without a scene, without a frames field or with an empty
\* frame list a pass clears, fills the background and draws the text
\* placeholder and no object; otherwise it draws the objects of the frame
\* looked up and no placeholder.
PlaceholderWithoutFrame ==
    last.op = "draw" =>
        IF currentFrame = 0
        THEN ShowsPlaceholder
        ELSE /\ \A i \in 1..Len(drawLog) : drawLog[i].cmd # "fillText"
             /\ \A i \in 1..Len(drawLog) : drawLog[i].obj \in 0..Len(FrameObjects)

\* C23, amended: a pass over a scene that has no frames field or an empty
\* frame list clears, fills the background and draws the text placeholder
\* and no object; with no scene at all there is no canvas and the pass
\* draws nothing; otherwise the pass clears, fills the background and draws
\* objects of the frame looked up (all of them unless one raised) and no
\* placeholder.
PlaceholderForSceneWithoutFrame ==
    last.op = "draw" =>
        CASE ~visualization.present -> drawLog = <<>>
          [] visualization.present /\ currentFrame = 0 -> ShowsPlaceholder
          [] OTHER ->
                /\ SubSeq(drawLog, 1, 3) = background(CanvasWidth, CanvasHeight)
                /\ \A i \in 1..Len(drawLog) : drawLog[i].cmd # "fillText"
                /\ \A i \in 4..Len(drawLog) : drawLog[i].obj \in 1..Len(FrameObjects)
                /\ ~thrown => \A o \in 1..Len(FrameObjects) : EntriesOf(o, "save") # {}

PlaceholderDrawnForMissingFrames ==
    /\ last.op = "draw"
    /\ visualization.present
    /\ ~visualization.hasFrames
    /\ Len(drawLog) = 8
    /\ drawLog[8].cmd = "fillText"
    /\ drawLog[8].args[1] = PlaceholderText

\* C24: two render passes of the same scene at the same currentTime make
\* the same calls with the same arguments.
RenderIsDeterministic ==
    (last.op = "draw" /\ last.arg = MaxPasses) => drawLog = previousLog

\* C25: drawObject applies each transformation whose property is present,
\* also when the value is 0: translate for x and y, rotate for rotation,
\* scale for scale, globalAlpha for opacity.
TransformsAppliedWhenPresent ==
    (last.op = "draw" /\ currentFrame # 0) =>
        \A o \in 1..Len(FrameObjects) :
            LET props == FrameObjects[o].properties
            IN  /\ (props.x # Undefined /\ props.y # Undefined) =>
                      \E i \in EntriesOf(o, "translate") : drawLog[i].args = <<props.x, props.y>>
                /\ props.rotation # Undefined =>
                      \E i \in EntriesOf(o, "rotate") : drawLog[i].args = <<props.rotation>>
                /\ props.scale # Undefined =>
                      \E i \in EntriesOf(o, "scale") :
                          drawLog[i].args = <<props.scale, props.scale>>
                /\ props.opacity # Undefined =>
                      \E i \in EntriesOf(o, "globalAlpha") : drawLog[i].args = <<props.opacity>>

\* where the claim puts one coordinate of the shaft's start
ArrowStartGiven(given, delta, default) ==
    IF given # Undefined THEN given
    ELSE IF delta # Undefined THEN NumV(JsDiv(JsNeg(delta.v), Two))
    ELSE NumV(default)

\* C30: drawArrow starts the shaft at startX / startY when provided, else at
\* -dx/2 / -dy/2 when dx / dy are provided, else at -30 / 0, and the start
\* and end coordinates are defined numbers.
ArrowStartsWhereGiven ==
    (last.op = "draw" /\ currentFrame # 0) =>
        \A o \in 1..Len(FrameObjects) :
            FrameObjects[o].type = "arrow" =>
                LET props == FrameObjects[o].properties
                    shaft == CHOOSE i \in EntriesOf(o, "moveTo") :
                                 \A j \in EntriesOf(o, "moveTo") : i <= j
                IN  /\ drawLog[shaft].args =
                          <<ArrowStartGiven(props.startX, props.dx, N(0 - 30)),
                            ArrowStartGiven(props.startY, props.dy, Zero)>>
                    /\ \A k \in 1..2 :
                          /\ IsNumber(drawLog[shaft].args[k])
                          /\ ~IsNaN(drawLog[shaft].args[k].v)
                          /\ IsNumber(drawLog[shaft + 1].args[k])
                          /\ ~IsNaN(drawLog[shaft + 1].args[k].v)

====
